---------------------------- MODULE Spec2Model ----------------------------
(***************************************************************************)
(* Model of sqlx-sqlite/src/options/parse.rs: the connection-URL parser    *)
(* (FromStr::from_str, SqliteConnectOptions::from_db_and_params), the      *)
(* serializer (SqliteConnectOptions::build_url) and the process-wide       *)
(* counter IN_MEMORY_DB_SEQ.                                               *)
(*                                                                         *)
(* Text.  A Rust string is modelled as a sequence of tokens, each token a  *)
(* piece of text that no operation of the code looks inside: the scheme    *)
(* "sqlite://" is <<"sqlite:", "//">> (so that "sqlite:" is a prefix of    *)
(* it, as in the source), the delimiters "?", "&", "=" and "+" are tokens  *)
(* of their own, a percent escape "%XX" is one token, and the marker       *)
(* "pragma_" is one token (the key "pragma_pragma_list" is                 *)
(* <<"pragma_", "pragma_", "list">>).  Every other token is plain text     *)
(* that contains none of these.                                            *)
(***************************************************************************)
EXTENDS Naturals, Sequences, FiniteSets, TLC

-----------------------------------------------------------------------------
(* Bounds of the model. *)

\* the longest query, in pairs, of a descriptor drawn by InitPure
MaxPairs == 2
\* the number of threads of the concurrent specification
NumThreads == 2
\* the number of from_str calls the threads of SpecConc make in total
MaxCalls == 3

-----------------------------------------------------------------------------
(* Text helpers (std::str). *)

Drop(s, n) == SubSeq(s, n + 1, Len(s))

StartsWith(s, p) == Len(s) >= Len(p) /\ SubSeq(s, 1, Len(p)) = p

\* str::trim_start_matches(pat): removes the prefix pat REPEATEDLY
RECURSIVE TrimStartMatches(_, _)
TrimStartMatches(s, p) ==
    IF p # <<>> /\ StartsWith(s, p)
    THEN TrimStartMatches(Drop(s, Len(p)), p)
    ELSE s

\* position of the first token c in s, 0 when there is none
FirstIndex(s, c) ==
    IF \E i \in 1..Len(s) : s[i] = c
    THEN CHOOSE i \in 1..Len(s) : s[i] = c /\ \A j \in 1..(i - 1) : s[j] # c
    ELSE 0

\* str::split(c): the pieces between the tokens c, empty pieces included
RECURSIVE Split(_, _)
Split(s, c) ==
    LET i == FirstIndex(s, c)
    IN  IF i = 0 THEN <<s>>
        ELSE <<SubSeq(s, 1, i - 1)>> \o Split(Drop(s, i), c)

\* str::replace(pat, "") for a one-token pattern: EVERY occurrence goes
Replace(s, pat) == SelectSeq(s, LAMBDA t : t # pat)

NoneText == [some |-> FALSE, val |-> <<>>]
SomeText(s) == [some |-> TRUE, val |-> s]

-----------------------------------------------------------------------------
(* Percent- and form-encoding (crates percent_encoding, form_urlencoded).  *)

\* the escapes of the model and the text each stands for; "%FF" is a byte
\* that is no UTF-8
Escapes == {"%3F", "%25", "%20", "%2B", "%26", "%3D", "%FF", "%EF%BF%BD"}
InvalidUtf8 == "%FF"
ReplacementChar == "<U+FFFD>"

Unescape(t) ==
    CASE t = "%3F" -> "?"
      [] t = "%25" -> "%"
      [] t = "%20" -> " "
      [] t = "%2B" -> "+"
      [] t = "%26" -> "&"
      [] t = "%3D" -> "="
      [] t = "%EF%BF%BD" -> ReplacementChar
      [] OTHER -> t

\* the escapes a decoder sees in s: a percent sign followed by the text 3F
\* reads as the escape %3F, wherever the two came from
RECURSIVE Lex(_)
Lex(s) ==
    IF s = <<>> THEN <<>>
    ELSE IF Len(s) >= 2 /\ s[1] = "%" /\ s[2] = "3F"
         THEN <<"%3F">> \o Lex(Drop(s, 2))
         ELSE <<Head(s)>> \o Lex(Tail(s))

\* percent_decode_str(s).decode_utf8(): Err on bytes that are no UTF-8
PercentDecodeUtf8(s) ==
    LET e == Lex(s)
    IN  IF \E i \in 1..Len(e) : e[i] = InvalidUtf8
        THEN [ok |-> FALSE, val |-> <<>>]
        ELSE [ok |-> TRUE, val |-> [i \in 1..Len(e) |-> Unescape(e[i])]]

\* form_urlencoded's decode: "+" is a space, escapes are decoded, bytes that
\* are no UTF-8 become U+FFFD (from_utf8_lossy)
FormDecode(s) ==
    LET e == Lex(s)
    IN  [i \in 1..Len(e) |->
            IF e[i] = "+" THEN " "
            ELSE IF e[i] = InvalidUtf8 THEN ReplacementChar
            ELSE Unescape(e[i])]

\* url::form_urlencoded::parse: pieces between "&", empty pieces skipped,
\* each split at its first "=", name and value decoded
FormPair(piece) ==
    LET i == FirstIndex(piece, "=")
    IN  IF i = 0 THEN <<FormDecode(piece), <<>>>>
        ELSE <<FormDecode(SubSeq(piece, 1, i - 1)), FormDecode(Drop(piece, i))>>

FormUrlencodedParse(s) ==
    LET pieces == SelectSeq(Split(s, "&"), LAMBDA p : p # <<>>)
    IN  [i \in 1..Len(pieces) |-> FormPair(pieces[i])]

\* form_urlencoded's byte_serialize: a space is "+", every byte outside
\* [A-Za-z0-9*-._] is escaped
FormEncodeToken(t) ==
    CASE t = " " -> "+"
      [] t = "?" -> "%3F"
      [] t = "%" -> "%25"
      [] t = "+" -> "%2B"
      [] t = "&" -> "%26"
      [] t = "=" -> "%3D"
      [] t = ReplacementChar -> "%EF%BF%BD"
      [] OTHER -> t

FormEncode(s) == [i \in 1..Len(s) |-> FormEncodeToken(s[i])]

\* PATH_ENCODE_SET of build_url: the controls, the space, the double quote,
\* the backtick and # < > ? { }; a non-ASCII byte (U+FFFD) is always
\* escaped; the percent sign is not in the set
PathEncodeToken(t) ==
    CASE t = " " -> "%20"
      [] t = "?" -> "%3F"
      [] t = ReplacementChar -> "%EF%BF%BD"
      [] OTHER -> t

PercentEncodePath(s) == [i \in 1..Len(s) |-> PathEncodeToken(s[i])]

-----------------------------------------------------------------------------
(* SqliteConnectOptions and the query parameters (from_db_and_params).     *)

\* Self::default(): not in memory, shared cache, nothing else set
Default ==
    [filename |-> <<>>, in_memory |-> FALSE, shared_cache |-> TRUE,
     create_if_missing |-> FALSE, read_only |-> FALSE, immutable |-> FALSE,
     vfs |-> NoneText, pragmas |-> <<>>]

\* SqliteConnectOptions::pragma(key, value): one more override, appended
Pragma(options, key, value) ==
    [options EXCEPT !.pragmas = Append(@, <<key, value>>)]

\* the names of the allow-list after their leading "pragma_", but for
\* "pragma_pragma_list"
PragmaNames ==
    {"analysis_limit", "application_id", "auto_vacuum", "automatic_index",
     "busy_timeout", "cache_size", "cache_spill", "case_sensitive_like",
     "cell_size_check", "checkpoint_fullfsync", "collation_list",
     "compile_options", "count_changes", "data_store_directory",
     "data_version", "database_list", "default_cache_size",
     "defer_foreign_keys", "empty_result_callbacks", "encoding",
     "foreign_key_check", "foreign_key_list", "foreign_keys",
     "freelist_count", "full_column_names", "fullfsync", "function_list",
     "hard_heap_limit", "ignore_check_constraints", "incremental_vacuum",
     "index_info", "index_list", "index_xinfo", "integrity_check",
     "journal_mode", "journal_size_limit", "legacy_alter_table",
     "legacy_file_format", "locking_mode", "max_page_count", "mmap_size",
     "module_list", "optimize", "page_count", "page_size", "parser_trace",
     "query_only", "quick_check", "read_uncommitted", "recursive_triggers",
     "reverse_unordered_selects", "schema_version", "secure_delete",
     "short_column_names", "shrink_memory", "soft_heap_limit", "stats",
     "synchronous", "table_info", "table_list", "table_xinfo",
     "temp_store", "temp_store_directory", "threads", "trusted_schema",
     "user_version", "vdbe_addoptrace", "vdbe_debug", "vdbe_listing",
     "vdbe_trace", "wal_autocheckpoint", "wal_checkpoint",
     "writable_schema"}

\* the keys of the match arm at lines 106-179
PragmaAllowList ==
    {<<"pragma_", n>> : n \in PragmaNames} \cup {<<"pragma_", "pragma_", "list">>}

\* format!("{value:?}"): the value between double quotes (the token
\* DoubleQuote stands for the character)
DoubleQuote == "<double quote>"
Backtick == "<backtick>"
Debug(value) == <<DoubleQuote>> \o value \o <<DoubleQuote>>

Configuration(msg) == [variant |-> "Configuration", msg |-> msg]

UnknownValue(value, key) ==
    Configuration(<<"unknown value ">> \o Debug(value) \o <<" for ", Backtick, key, Backtick>>)

UnknownParameter(key) ==
    Configuration(<<"unknown query parameter ", Backtick>> \o key
                  \o <<Backtick, " while parsing connection URL">>)

\* Error::config(Utf8Error)
Utf8Error == Configuration(<<"invalid utf-8 sequence">>)

Continue(options) == [ok |-> TRUE, options |-> options]
Return(err) == [ok |-> FALSE, err |-> err]

\* the arm "mode" with a "memory" arm that forgets in_memory
ApplyModeMemoryForgotten(options, value) ==
    CASE value = <<"ro">> -> Continue([options EXCEPT !.read_only = TRUE])
      [] value = <<"rw">> -> Continue(options)
      [] value = <<"rwc">> -> Continue([options EXCEPT !.create_if_missing = TRUE])
      [] value = <<"memory">> -> Continue([options EXCEPT !.shared_cache = TRUE])
      [] OTHER -> Return(UnknownValue(value, "mode"))

\* the arm "mode" with a "memory" arm that leaves shared_cache alone
ApplyModeCacheKept(options, value) ==
    CASE value = <<"ro">> -> Continue([options EXCEPT !.read_only = TRUE])
      [] value = <<"rw">> -> Continue(options)
      [] value = <<"rwc">> -> Continue([options EXCEPT !.create_if_missing = TRUE])
      [] value = <<"memory">> -> Continue([options EXCEPT !.in_memory = TRUE])
      [] OTHER -> Return(UnknownValue(value, "mode"))

\* the arm "mode"
ApplyMode(options, value) ==
    CASE value = <<"ro">> -> Continue([options EXCEPT !.read_only = TRUE])
      [] value = <<"rw">> -> Continue(options)
      [] value = <<"rwc">> -> Continue([options EXCEPT !.create_if_missing = TRUE])
      [] value = <<"memory">> ->
            Continue([options EXCEPT !.in_memory = TRUE, !.shared_cache = TRUE])
      [] OTHER -> Return(UnknownValue(value, "mode"))

\* the arm "cache"
ApplyCache(options, value) ==
    CASE value = <<"private">> -> Continue([options EXCEPT !.shared_cache = FALSE])
      [] value = <<"shared">> -> Continue([options EXCEPT !.shared_cache = TRUE])
      [] OTHER -> Return(UnknownValue(value, "cache"))

\* the arm "immutable" taking every value it does not know for false
ApplyImmutableLenient(options, value) ==
    CASE value \in {<<"true">>, <<"1">>} -> Continue([options EXCEPT !.immutable = TRUE])
      [] OTHER -> Continue([options EXCEPT !.immutable = FALSE])

\* the arm "immutable"
ApplyImmutable(options, value) ==
    CASE value \in {<<"true">>, <<"1">>} -> Continue([options EXCEPT !.immutable = TRUE])
      [] value \in {<<"false">>, <<"0">>} -> Continue([options EXCEPT !.immutable = FALSE])
      [] OTHER -> Return(UnknownValue(value, "immutable"))

\* the arm "vfs"
ApplyVfs(options, value) == Continue([options EXCEPT !.vfs = SomeText(value)])

\* the arm of the allow-listed pragmas
ApplyPragma(options, key, value) ==
    Continue(Pragma(options, Replace(key, "pragma_"), value))

\* one turn of the loop: match &*key { ... }
ApplyPair(options, key, value) ==
    CASE key = <<"mode">> -> ApplyMode(options, value)
      [] key = <<"cache">> -> ApplyCache(options, value)
      [] key = <<"immutable">> -> ApplyImmutable(options, value)
      [] key = <<"vfs">> -> ApplyVfs(options, value)
      [] key \in PragmaAllowList -> ApplyPragma(options, key, value)
      [] OTHER -> Return(UnknownParameter(key))

\* the loop over the pairs: the first Err returns
RECURSIVE ApplyPairs(_, _)
ApplyPairs(options, pairs) ==
    IF pairs = <<>> THEN Continue(options)
    ELSE LET r == ApplyPair(options, Head(pairs)[1], Head(pairs)[2])
         IN  IF r.ok THEN ApplyPairs(r.options, Tail(pairs)) ELSE r

\* if let Some(params) = params { for ... } Ok(options)
ApplyParams(options, params) ==
    IF params.some THEN ApplyPairs(options, FormUrlencodedParse(params.val))
    ELSE Continue(options)

Sentinel == <<":memory:">>

\* a load and a store of the value loaded: the increment is lost
FetchAddLost(seq) == [old |-> seq, new |-> seq]

\* the value after the increment is returned, not the one before
FetchAddReturnsNew(seq) == [old |-> seq + 1, new |-> seq + 1]

\* IN_MEMORY_DB_SEQ.fetch_add(1, Relaxed): one atomic read-modify-write
FetchAdd(seq) == [old |-> seq, new |-> seq + 1]

\* format!("file:sqlx-in-memory-{seqno}")
InMemoryName(seqno) == <<"file:sqlx-in-memory-", seqno>>

\* the branch database == ":memory:"
MemoryOptions(seqno) ==
    [Default EXCEPT !.in_memory = TRUE, !.shared_cache = TRUE,
                    !.filename = InMemoryName(seqno)]

\* the else branch: the percent-decoded path, or the decoding error
FileOptions(database) ==
    LET d == PercentDecodeUtf8(database)
    IN  IF d.ok THEN Continue([Default EXCEPT !.filename = d.val])
        ELSE Return(Utf8Error)

-----------------------------------------------------------------------------
(* build_url and the string form of the Url it returns.                    *)

\* the match with the arms of ro and rwc in the other order
ModeOfReadOnlyFirst(options) ==
    IF options.in_memory THEN <<"memory">>
    ELSE IF options.read_only THEN <<"ro">>
    ELSE IF options.create_if_missing THEN <<"rwc">>
    ELSE <<"rw">>

\* the match on (in_memory, create_if_missing, read_only)
ModeOf(options) ==
    IF options.in_memory THEN <<"memory">>
    ELSE IF options.create_if_missing THEN <<"rwc">>
    ELSE IF options.read_only THEN <<"ro">>
    ELSE <<"rw">>

\* the match on shared_cache
CacheOf(options) == IF options.shared_cache THEN <<"shared">> ELSE <<"private">>

\* the calls of url.query_pairs_mut().append_pair, in order
QueryPairs(options) ==
    <<  <<<<"mode">>, ModeOf(options)>>, <<<<"cache">>, CacheOf(options)>>  >>
    \o (IF options.immutable THEN << <<<<"immutable">>, <<"true">>>> >> ELSE <<>>)
    \o (IF options.vfs.some THEN << <<<<"vfs">>, options.vfs.val>> >> ELSE <<>>)

\* build_url: the Url of "sqlite://{filename_encoded}" with the pairs
\* appended (Url::parse is taken to keep the text it is given)
BuildUrl(options) ==
    [base |-> <<"sqlite:", "//">> \o PercentEncodePath(options.filename),
     query |-> QueryPairs(options)]

RECURSIVE Join(_, _)
Join(pieces, sep) ==
    IF pieces = <<>> THEN <<>>
    ELSE IF Len(pieces) = 1 THEN Head(pieces)
    ELSE Head(pieces) \o <<sep>> \o Join(Tail(pieces), sep)

\* Url::as_str: the base, "?", and the pairs form-encoded as name=value
\* joined by "&"
UrlString(u) ==
    u.base \o <<"?">>
    \o Join([i \in 1..Len(u.query) |->
                FormEncode(u.query[i][1]) \o <<"=">> \o FormEncode(u.query[i][2])],
            "&")

-----------------------------------------------------------------------------
(* from_str.                                                               *)

\* url.trim_start_matches("sqlite://").trim_start_matches("sqlite:")
RemoveScheme(url) ==
    TrimStartMatches(TrimStartMatches(url, <<"sqlite:", "//">>), <<"sqlite:">>)

\* url.splitn(2, '?'): database is the first piece, params the rest if any
SplitDatabase(body) ==
    LET i == FirstIndex(body, "?")
    IN  IF i = 0 THEN [database |-> body, params |-> NoneText]
        ELSE [database |-> SubSeq(body, 1, i - 1),
              params |-> SomeText(Drop(body, i))]

-----------------------------------------------------------------------------
(* The descriptors the specifications draw from.                           *)

SeqsUpTo(S, n) == UNION {[1..k -> S] : k \in 0..n}

\* query pairs as written in a descriptor
PairTexts ==
    {<<"mode", "=", m>> : m \in {"ro", "rw", "rwc", "memory", "rwx"}}
    \cup {<<"cache", "=", c>> : c \in {"private", "shared", "none"}}
    \cup {<<"immutable", "=", b>> : b \in {"true", "0", "yes"}}
    \cup {<<"vfs", "=", "unix">>, <<"vfs", "=", "u", "?", "x">>}
    \cup {<<"pragma_", "cache_size", "=", "2000">>,
          <<"pragma_", "pragma_", "list", "=", "1">>,
          <<"pragma_", "bogus", "=", "1">>,
          <<"foo", "=", "1">>}

QueryTexts == {Join(q, "&") : q \in SeqsUpTo(PairTexts, MaxPairs)}

\* path parts: the sentinel, plain paths, the empty path, an escaped "?",
\* an escaped "%", a byte that is no UTF-8
PathTexts ==
    {Sentinel, <<"a.db">>, <<>>, <<"a", "%3F", "b">>, <<"a", "%25", "3F">>,
     <<"%FF">>}

BodyTexts == PathTexts \cup {p \o <<"?">> \o q : p \in PathTexts, q \in QueryTexts}

\* scheme prefixes, repeated ones included, on a few bodies
SchemeTexts ==
    {<<>>, <<"sqlite:", "//">>, <<"sqlite:">>,
     <<"sqlite:", "//", "sqlite:", "//">>, <<"sqlite:", "//", "sqlite:">>,
     <<"sqlite:", "sqlite:">>, <<"sqlite:", "sqlite:", "//">>}

SchemeBodies ==
    {Sentinel, <<"a.db">>, <<"a.db", "?", "mode", "=", "ro">>,
     <<"?", "mode", "=", "memory">>,
     <<"a.db", "?", "vfs", "=", "u", "?", "cache", "=", "private">>}

\* queries with empty pieces, a pair without "=", a second "=", a "+", a
\* byte that is no UTF-8
OddTexts ==
    {<<"sqlite:", "//", "a.db", "?">> \o q : q \in
        {<<"&", "mode", "=", "ro", "&", "&", "cache", "=", "private", "&">>,
         <<"vfs">>, <<"mode">>,
         <<"vfs", "=", "u", "+", "x">>, <<"vfs", "=", "%FF">>,
         <<"mode", "=", "ro", "=", "x">>}}
    \cup {<<"sqlite:", "//", "test.db", "?", "mode", "=", "rw", "&",
            "cache", "=", "shared">>}

Descriptors ==
    {<<"sqlite:", "//">> \o b : b \in BodyTexts}
    \cup {s \o b : s \in SchemeTexts, b \in SchemeBodies}
    \cup OddTexts

\* the descriptors the threads of SpecConc parse
SmallDescriptors ==
    {<<"sqlite:", ":memory:">>,
     <<":memory:", "?", "mode", "=", "rwx">>,
     <<"sqlite:", "//", "a.db", "?", "mode", "=", "memory">>,
     <<"sqlite:", "//", "a.db">>}

-----------------------------------------------------------------------------
(* The state.                                                              *)

VARIABLES
    IN_MEMORY_DB_SEQ,   \* the static AtomicUsize
    pc,                 \* per thread: where it is
    url,                \* per thread: the argument of from_str
    database,           \* per thread: from_str's local database
    params,             \* per thread: from_str's local params
    options,            \* per thread: from_db_and_params's local options
    result,             \* per thread: what from_str returned
    built,              \* per thread: what build_url returned
    first,              \* per thread: the result that was serialized, kept
                        \*   while its Url is parsed again
    minted,             \* history: the names formatted, in fetch_add order
    names,              \* history: the filenames returned for a sentinel path
    calls               \* history: the number of from_str calls made

vars == <<IN_MEMORY_DB_SEQ, pc, url, database, params, options, result, built,
          first, minted, names, calls>>

Threads == 1..NumThreads

NoError == [variant |-> "none", msg |-> <<>>]
NoResult == Return(NoError)
NoUrl == [base |-> <<>>, query |-> <<>>]

Idle(p) ==
    /\ IN_MEMORY_DB_SEQ = 0
    /\ pc = [t \in Threads |-> p]
    /\ url = [t \in Threads |-> <<>>]
    /\ database = [t \in Threads |-> <<>>]
    /\ params = [t \in Threads |-> NoneText]
    /\ options = [t \in Threads |-> Default]
    /\ result = [t \in Threads |-> NoResult]
    /\ built = [t \in Threads |-> NoUrl]
    /\ first = [t \in Threads |-> NoResult]
    /\ minted = <<>>
    /\ names = <<>>
    /\ calls = 0

\* the process has started and no thread has called anything
Init == Idle("idle")

\* one thread is about to parse a descriptor, any of Descriptors, in a
\* process where earlier parses of the sentinel path took n numbers
InitPure ==
    \E d \in Descriptors, n \in {0, MaxCalls} :
        /\ IN_MEMORY_DB_SEQ = n
        /\ pc = [t \in Threads |-> IF t = 1 THEN "from_str" ELSE "off"]
        /\ url = [t \in Threads |-> IF t = 1 THEN d ELSE <<>>]
        /\ database = [t \in Threads |-> <<>>]
        /\ params = [t \in Threads |-> NoneText]
        /\ options = [t \in Threads |-> Default]
        /\ result = [t \in Threads |-> NoResult]
        /\ built = [t \in Threads |-> NoUrl]
        /\ first = [t \in Threads |-> NoResult]
        /\ minted = [k \in 1..n |-> InMemoryName(ToString(k - 1))]
        /\ names = <<>>
        /\ calls = n + 1

-----------------------------------------------------------------------------
(* The steps of a thread.                                                  *)

\* a caller calls from_str(d)
Call(t, d) ==
    /\ pc[t] = "idle"
    /\ calls < MaxCalls
    /\ calls' = calls + 1
    /\ url' = [url EXCEPT ![t] = d]
    /\ pc' = [pc EXCEPT ![t] = "from_str"]
    /\ UNCHANGED <<IN_MEMORY_DB_SEQ, database, params, options, result, built,
                   first, minted, names>>

\* from_str, lines 246-255: the scheme goes, the rest is split at "?"
FromStr(t) ==
    /\ pc[t] = "from_str"
    /\ LET s == SplitDatabase(RemoveScheme(url[t]))
       IN  /\ database' = [database EXCEPT ![t] = s.database]
           /\ params' = [params EXCEPT ![t] = s.params]
    /\ pc' = [pc EXCEPT ![t] = "path"]
    /\ UNCHANGED <<IN_MEMORY_DB_SEQ, url, options, result, built, first,
                   minted, names, calls>>

\* from_db_and_params, lines 18-35: the sentinel takes a number from the
\* counter, any other path is decoded (and the decoding error returns)
PathStep(t) ==
    /\ pc[t] = "path"
    /\ IF database[t] = Sentinel
       THEN LET f == FetchAdd(IN_MEMORY_DB_SEQ)
            IN  /\ IN_MEMORY_DB_SEQ' = f.new
                /\ options' = [options EXCEPT ![t] = MemoryOptions(ToString(f.old))]
                /\ minted' = Append(minted, InMemoryName(ToString(f.old)))
                /\ pc' = [pc EXCEPT ![t] = "params"]
                /\ UNCHANGED result
       ELSE LET r == FileOptions(database[t])
            IN  /\ IF r.ok
                   THEN /\ options' = [options EXCEPT ![t] = r.options]
                        /\ pc' = [pc EXCEPT ![t] = "params"]
                        /\ UNCHANGED result
                   ELSE /\ result' = [result EXCEPT ![t] = r]
                        /\ pc' = [pc EXCEPT ![t] = "done"]
                        /\ UNCHANGED options
                /\ UNCHANGED <<IN_MEMORY_DB_SEQ, minted>>
    /\ UNCHANGED <<url, database, params, built, first, names, calls>>

\* from_db_and_params, lines 37-193: the loop over the pairs and the return
ParamsStep(t) ==
    /\ pc[t] = "params"
    /\ LET r == ApplyParams(options[t], params[t])
       IN  /\ result' = [result EXCEPT ![t] = r]
           /\ names' = IF r.ok /\ database[t] = Sentinel
                       THEN Append(names, r.options.filename)
                       ELSE names
    /\ pc' = [pc EXCEPT ![t] = "done"]
    /\ UNCHANGED <<IN_MEMORY_DB_SEQ, url, database, params, options, built,
                   first, minted, calls>>

\* a caller calls build_url on the options it was returned
BuildUrlCall(t) ==
    /\ pc[t] = "done"
    /\ result[t].ok
    /\ built' = [built EXCEPT ![t] = BuildUrl(result[t].options)]
    /\ pc' = [pc EXCEPT ![t] = "built"]
    /\ UNCHANGED <<IN_MEMORY_DB_SEQ, url, database, params, options, result,
                   first, minted, names, calls>>

\* a caller parses the string form of the Url it was returned
Reparse(t) ==
    /\ pc[t] = "built"
    /\ ~first[t].ok
    /\ first' = [first EXCEPT ![t] = result[t]]
    /\ url' = [url EXCEPT ![t] = UrlString(built[t])]
    /\ pc' = [pc EXCEPT ![t] = "from_str"]
    /\ UNCHANGED <<IN_MEMORY_DB_SEQ, database, params, options, result, built,
                   minted, names, calls>>

\* the caller drops what it holds
Finish(t) ==
    /\ pc[t] \in {"done", "built"}
    /\ pc' = [pc EXCEPT ![t] = "idle"]
    /\ url' = [url EXCEPT ![t] = <<>>]
    /\ database' = [database EXCEPT ![t] = <<>>]
    /\ params' = [params EXCEPT ![t] = NoneText]
    /\ options' = [options EXCEPT ![t] = Default]
    /\ result' = [result EXCEPT ![t] = NoResult]
    /\ built' = [built EXCEPT ![t] = NoUrl]
    /\ UNCHANGED <<IN_MEMORY_DB_SEQ, first, minted, names, calls>>

\* one thread: parse, serialize, parse again
NextPure ==
    \E t \in Threads :
        \/ FromStr(t)
        \/ PathStep(t)
        \/ ParamsStep(t)
        \/ BuildUrlCall(t)
        \/ Reparse(t)

\* the threads call from_str and build_url as they please
Next ==
    \E t \in Threads :
        \/ \E d \in SmallDescriptors : Call(t, d)
        \/ FromStr(t)
        \/ PathStep(t)
        \/ ParamsStep(t)
        \/ BuildUrlCall(t)
        \/ Finish(t)

\* the concurrent program
Spec == Init /\ [][Next]_vars

\* the parser and the serializer on every descriptor
SpecPure == InitPure /\ [][NextPure]_vars

-----------------------------------------------------------------------------
(* What the properties speak of.                                           *)

\* from_str has returned to thread t, and result[t] is what it returned
Returned(t) == pc[t] \in {"done", "built"}

\* the decoded pairs of the query thread t parses, in descriptor order
PairsOf(t) ==
    IF params[t].some THEN FormUrlencodedParse(params[t].val) ELSE <<>>

Range(s) == {s[i] : i \in 1..Len(s)}

RemoveAt(s, i) == SubSeq(s, 1, i - 1) \o SubSeq(s, i + 1, Len(s))

ModeValues == {<<"ro">>, <<"rw">>, <<"rwc">>, <<"memory">>}

ModeIndexes(ps) == {i \in 1..Len(ps) : ps[i][1] = <<"mode">>}

Min(S) == CHOOSE x \in S : \A y \in S : x <= y
Max(S) == CHOOSE x \in S : \A y \in S : x >= y

ModeFields(o) == <<o.read_only, o.create_if_missing, o.in_memory>>

\* C1: a successful parse of a query with two mode pairs gives the
\* read_only, create_if_missing and in_memory of the parse of the same
\* descriptor without its first mode pair: the second pair alone decides.
SecondModeAloneDecides ==
    \A t \in Threads :
        LET ps == PairsOf(t)
            ms == ModeIndexes(ps)
        IN  (Returned(t) /\ result[t].ok /\ Cardinality(ms) = 2)
            => LET other == ApplyPairs(options[t], RemoveAt(ps, Min(ms)))
               IN  /\ other.ok
                   /\ ModeFields(result[t].options) = ModeFields(other.options)

\* C2: the pragma overrides of a successful parse are, in order, one entry
\* for each allow-listed pragma key of the query: the key without its
\* leading "pragma_" (removed once, any later "pragma_" kept) and the value.
PragmaMarkerRemovedOnce ==
    \A t \in Threads :
        (Returned(t) /\ result[t].ok)
        => LET ps == SelectSeq(PairsOf(t), LAMBDA p : p[1] \in PragmaAllowList)
           IN  result[t].options.pragmas
                   = [i \in 1..Len(ps) |-> <<Tail(ps[i][1]), ps[i][2]>>]

\* the path a path part of the model's descriptors stands for
DecodedPath(d) ==
    CASE d = <<"a", "%3F", "b">> -> <<"a", "?", "b">>
      [] d = <<"a", "%25", "3F">> -> <<"a", "%", "3F">>
      [] d = <<"a", "%", "3F">> -> <<"a", "?">>
      [] OTHER -> d

HasModeMemory(ps) == \E i \in 1..Len(ps) : ps[i] = <<<<"mode">>, <<"memory">>>>

\* C3, as stated: a successful parse returns in_memory only with a name the
\* Namer minted, never with a path taken from the descriptor's path part.
InMemoryOnlyWithMintedName ==
    \A t \in Threads :
        (Returned(t) /\ result[t].ok /\ result[t].options.in_memory)
        => /\ result[t].options.filename \in Range(minted)
           /\ database[t] = Sentinel

\* C3, amended: a successful parse returns in_memory exactly when the path
\* part is the sentinel or the query has a mode=memory pair; for the
\* sentinel the name is one the Namer minted, and otherwise it is the
\* percent-decoded path part, in memory or not.
InMemoryBySentinelOrMode ==
    \A t \in Threads :
        (Returned(t) /\ result[t].ok)
        => LET o == result[t].options
           IN  /\ o.in_memory <=> (database[t] = Sentinel \/ HasModeMemory(PairsOf(t)))
               /\ database[t] = Sentinel => o.filename \in Range(minted)
               /\ database[t] # Sentinel
                    => o.filename = DecodedPath(database[t])

\* a parse of a.db?mode=memory has returned: in memory, named by its path
NamedInMemoryReturned ==
    \E t \in Threads :
        /\ Returned(t) /\ result[t].ok
        /\ result[t].options.in_memory
        /\ database[t] = <<"a.db">>
        /\ result[t].options.filename = <<"a.db">>

\* the path of options o came from a path part other than the sentinel and
\* holds nothing build_url or a parser would encode or decode
PlainOnDiskPath(o) ==
    /\ o.filename # <<>>
    /\ \A i \in 1..Len(o.filename) :
          o.filename[i] \notin {"file:sqlx-in-memory-", "%", "?", " ", ReplacementChar}
                                \cup Escapes

RoundTripFields(o) ==
    <<o.filename, o.in_memory, o.shared_cache, o.create_if_missing, o.read_only,
      o.immutable, o.vfs>>

\* C4: when the options parsed from a plain on-disk path and mode, cache,
\* immutable and vfs pairs (no pragma) are serialized and the Url is parsed,
\* the parse succeeds and gives the same path, in_memory, shared_cache,
\* create_if_missing, read_only, immutable and vfs.
UrlRoundTrips ==
    \A t \in Threads :
        (Returned(t) /\ first[t].ok /\ PlainOnDiskPath(first[t].options)
            /\ first[t].options.pragmas = <<>>)
        => /\ result[t].ok
           /\ RoundTripFields(result[t].options) = RoundTripFields(first[t].options)

Distinct(s) == \A i, j \in 1..Len(s) : i # j => s[i] # s[j]

\* C5: the names returned for the sentinel path are pairwise distinct, no
\* number of the counter is handed out twice, and no increment is lost.
SentinelNamesDistinct ==
    /\ Distinct(names)
    /\ Distinct(minted)
    /\ IN_MEMORY_DB_SEQ = Len(minted)

\* two parses of the sentinel have returned, by different threads, while
\* the threads ran interleaved
TwoSentinelParsesReturned ==
    /\ Len(names) >= 2
    /\ \E t, u \in Threads :
          /\ t # u
          /\ Returned(t) /\ Returned(u)
          /\ database[t] = Sentinel /\ database[u] = Sentinel
          /\ result[t].ok /\ result[u].ok

\* the events that decide shared_cache: 0 is the sentinel path, i >= 1 the
\* i-th pair when it is mode=memory or a cache pair
CacheEvents(t) ==
    {i \in 0..Len(PairsOf(t)) :
        IF i = 0 THEN database[t] = Sentinel
        ELSE PairsOf(t)[i] \in {<<<<"mode">>, <<"memory">>>>,
                                <<<<"cache">>, <<"shared">>>>,
                                <<<<"cache">>, <<"private">>>>}}

CacheEventValue(t, i) ==
    IF i = 0 THEN TRUE ELSE PairsOf(t)[i] # <<<<"cache">>, <<"private">>>>

\* C6: a successful parse returns in_memory when the path part is the
\* sentinel or the query has a mode=memory pair, and the shared_cache that
\* the last of the sentinel path, the mode=memory pairs and the cache pairs
\* sets (true but for cache=private).
LastCacheEventDecides ==
    \A t \in Threads :
        (Returned(t) /\ result[t].ok)
        => LET o == result[t].options
           IN  /\ (database[t] = Sentinel \/ HasModeMemory(PairsOf(t))) => o.in_memory
               /\ CacheEvents(t) # {}
                    => o.shared_cache = CacheEventValue(t, Max(CacheEvents(t)))

\* mode=memory&cache=private has been parsed: in memory, private cache; and
\* so has cache=private&mode=memory: in memory, shared cache
MemoryThenPrivateReturned ==
    \E t \in Threads :
        /\ Returned(t) /\ result[t].ok
        /\ PairsOf(t) = << <<<<"mode">>, <<"memory">>>>, <<<<"cache">>, <<"private">>>> >>
        /\ result[t].options.in_memory
        /\ ~result[t].options.shared_cache

ValidPair(p) ==
    \/ p[1] = <<"mode">> /\ p[2] \in ModeValues
    \/ p[1] = <<"cache">> /\ p[2] \in {<<"private">>, <<"shared">>}
    \/ p[1] = <<"immutable">> /\ p[2] \in {<<"true">>, <<"1">>, <<"false">>, <<"0">>}
    \/ p[1] = <<"vfs">>
    \/ p[1] \in PragmaAllowList

\* the message that names the value of a bad mode, cache or immutable pair,
\* or the key of a pair with an unknown key
ErrorNaming(p) ==
    IF p[1] \in {<<"mode">>, <<"cache">>, <<"immutable">>}
    THEN UnknownValue(p[2], p[1][1])
    ELSE UnknownParameter(p[1])

UndecodablePath(t) ==
    database[t] # Sentinel /\ \E i \in 1..Len(database[t]) : database[t][i] = InvalidUtf8

InvalidIndexes(t) == {i \in 1..Len(PairsOf(t)) : ~ValidPair(PairsOf(t)[i])}

\* C7, as stated: from_str returns an error exactly when the path part (not
\* the sentinel) does not decode as UTF-8 or a pair of the query is invalid,
\* and whenever a pair is invalid the error is the one naming the first
\* invalid pair's value or key.
ErrorIsOfFirstInvalidPair ==
    \A t \in Threads :
        Returned(t)
        => /\ ~result[t].ok <=> (UndecodablePath(t) \/ InvalidIndexes(t) # {})
           /\ InvalidIndexes(t) # {}
                => /\ ~result[t].ok
                   /\ result[t].err = ErrorNaming(PairsOf(t)[Min(InvalidIndexes(t))])

\* C7, amended: from_str returns an error, and no options, exactly when the path part
\* (not the sentinel) does not decode as UTF-8 or a pair of the query is
\* invalid; the error is the decoding error when the path does not decode,
\* and otherwise the one naming the first invalid pair's value or key.
ErrorExactlyOnInvalidInput ==
    \A t \in Threads :
        Returned(t)
        => /\ ~result[t].ok <=> (UndecodablePath(t) \/ InvalidIndexes(t) # {})
           /\ result[t].ok => DOMAIN result[t] = {"ok", "options"}
           /\ ~result[t].ok =>
                /\ DOMAIN result[t] = {"ok", "err"}
                /\ result[t].err.variant = "Configuration"
                /\ result[t].err =
                      IF UndecodablePath(t) THEN Utf8Error
                      ELSE ErrorNaming(PairsOf(t)[Min(InvalidIndexes(t))])

\* a parse has failed on its second pair, after a valid first one and
\* before nothing else
SecondPairRejected ==
    \E t \in Threads :
        /\ Returned(t) /\ ~result[t].ok
        /\ ~UndecodablePath(t)
        /\ InvalidIndexes(t) = {2}
        /\ PairsOf(t)[2][1] = <<"immutable">>

RemoveOneScheme(s) ==
    IF StartsWith(s, <<"sqlite:", "//">>) THEN Drop(s, 2)
    ELSE IF StartsWith(s, <<"sqlite:">>) THEN Drop(s, 1)
    ELSE s

\* C9: from_str removes one scheme prefix ("sqlite://", else "sqlite:", else
\* nothing); of what is left, the path part is the text before the first
\* "?" and the query part all of the text after it.
OneSchemePrefixRemoved ==
    \A t \in Threads :
        pc[t] \in {"path", "params", "done", "built"}
        => LET body == RemoveOneScheme(url[t])
               i == FirstIndex(body, "?")
           IN  /\ database[t] = IF i = 0 THEN body ELSE SubSeq(body, 1, i - 1)
               /\ params[t] = IF i = 0 THEN NoneText ELSE SomeText(Drop(body, i))

\* the step is the fetch_add of a parse of the sentinel path
FetchesForSentinel ==
    \E t \in Threads : pc[t] = "path" /\ pc'[t] # "path" /\ database[t] = Sentinel

\* C10: no step decreases the counter; the step of a parse whose path part
\* is the sentinel adds exactly 1 and every other step of from_str or
\* build_url leaves it alone; the k-th name minted carries k - 1.
CounterCountsSentinelParses ==
    [][ /\ IN_MEMORY_DB_SEQ' >= IN_MEMORY_DB_SEQ
        /\ FetchesForSentinel => IN_MEMORY_DB_SEQ' = IN_MEMORY_DB_SEQ + 1
        /\ ~FetchesForSentinel => IN_MEMORY_DB_SEQ' = IN_MEMORY_DB_SEQ
        /\ \A k \in 1..Len(minted') :
              minted'[k] = <<"file:sqlx-in-memory-", ToString(k - 1)>>
        /\ Len(minted') = IN_MEMORY_DB_SEQ' ]_vars

\* two sentinel parses took a number, one of them then failed on its query,
\* and a parse that is in memory by mode=memory was serialized
CounterAdvancedTwice ==
    /\ IN_MEMORY_DB_SEQ = 2
    /\ \E t \in Threads :
          /\ pc[t] = "done" /\ ~result[t].ok /\ database[t] = Sentinel
    /\ \E t \in Threads :
          /\ pc[t] = "built" /\ database[t] # Sentinel
          /\ result[t].options.in_memory

=============================================================================
